---- MODULE Spec2Model ----
(***************************************************************************)
(* Model of the gallery assembly pipeline of holoviz-topics/examples:      *)
(*   doc/conf.py            builds the redirect table while Sphinx loads    *)
(*                          the configuration (to_gallery_redirects),      *)
(*   _extensions/gallery.py generates one page per category and the root   *)
(*                          index on the builder-inited event.             *)
(*                                                                         *)
(* A file is a record [dir, stem, ext]; the filesystem is a set of files.  *)
(* The doc build mirrors every project directory into                      *)
(* doc/gallery/<project>, so find_notebooks and glob.glob list the same    *)
(* notebooks; find_notebooks is modelled by its body (the keyword root     *)
(* that conf.py passes is not part of its signature in dodo.py).           *)
(* Texts are modelled by their structure: a page is a record of its        *)
(* cards, its toctree entries and, for the root, its label buttons and     *)
(* category sections, each in the order the text holds them.               *)
(*                                                                         *)
(* The tasks of dodo.py and the notebook header of _extensions/nbheader.py *)
(* run apart from the doc build. Each has its own variables and its own    *)
(* specification (SpecTestData, SpecRemoving, SpecEndpoint, SpecNbheader,  *)
(* SpecAE5); the variables of the parts a specification does not run keep  *)
(* the value Idle.                                                         *)
(***************************************************************************)
EXTENDS Integers, Sequences, FiniteSets, TLC

VARIABLES
    sections,           \* gallery_conf['sections'] (conf.py), in catalog order
    TAG_MAPPING,        \* tags.yml: project -> [category |-> list]
    files,              \* the filesystem: notebooks, thumbnails, label icons
    pc,                 \* position of the build
    catIdx,             \* index of the next category page to generate
    category_projects,  \* generate_galleries: catname -> list of sections
    redirects,          \* rediraffe_redirects (conf.py)
    docs,               \* written documents: path -> content
    writeLog,           \* the paths written, in order
    warnings,           \* logger.warning calls, in order
    error,              \* the exception that ended the build, or NoError
    runNo,              \* 1 for the first build, 2 for the repeated one
    prevDocs            \* the documents of the first build

\* The state of the tasks of dodo.py, which run apart from the doc build.
VARIABLES
    disk,               \* test data set-up: what the paths of _prepare_paths hold
    diskAtCopy,         \* the disk when copy_test_data was last called
    taskLog             \* the test data tasks run so far, with their outcome

galleryVars == <<sections, TAG_MAPPING, files, pc, catIdx, category_projects,
                 redirects, docs, writeLog, warnings, error, runNo, prevDocs>>

testDataVars == <<disk, diskAtCopy, taskLog>>

\* The state of the context manager removing_files.
VARIABLES
    paths,              \* the list of paths given to removing_files
    present,            \* path -> what is at the path: a file, a directory, nothing
    presentOnEntry,     \* present, when the context was entered
    already_there,      \* the list removing_files builds on entry
    ctx                 \* position: outside, in the body, after it, exited

removingVars == <<paths, present, presentOnEntry, already_there, ctx>>

\* The endpoints of the deployments.
VARIABLES
    requests,           \* two calls of deployment_cmd_to_endpoint: (cmd, name, full)
    endpoints           \* what the two calls returned or raised

endpointVars == <<requests, endpoints>>

\* The notebook header (_extensions/nbheader.py).
VARIABLES
    notebook,           \* the notebook at nb_path
    html_header,        \* the header insert_html_header is given
    nbOriginal,         \* the notebook before the first application
    nbOnce,             \* the notebook after the first application
    applied             \* the applications so far, each with what it raised

nbheaderVars == <<notebook, html_header, nbOriginal, nbOnce, applied>>

\* The remote platform (AE5) and the tasks that deploy to it.
VARIABLES
    remote,             \* the projects and the deployments on the platform
    remoteBefore,       \* the platform when the last task started
    calls,              \* the calls the last task made on its session, in order
    raised,             \* what the last task raised, or NoError
    ae5Runs             \* the tasks run so far

ae5Vars == <<remote, remoteBefore, calls, raised, ae5Runs>>

taskVars == <<testDataVars, removingVars, endpointVars, nbheaderVars, ae5Vars>>

vars == <<galleryVars, taskVars>>

\* What a task leaves alone: the doc build and the other tasks.
notTestData == <<galleryVars, removingVars, endpointVars, nbheaderVars, ae5Vars>>

notRemoving == <<galleryVars, testDataVars, endpointVars, nbheaderVars, ae5Vars>>

notEndpoint == <<galleryVars, testDataVars, removingVars, nbheaderVars, ae5Vars>>

notNbheader == <<galleryVars, testDataVars, removingVars, endpointVars, ae5Vars>>

notAE5 == <<galleryVars, testDataVars, removingVars, endpointVars, nbheaderVars>>

\* A part of the model that is not run has the value Idle in its variables.
Idle == "idle"

GalleryIdle ==
    /\ sections = Idle /\ TAG_MAPPING = Idle /\ files = Idle /\ pc = Idle
    /\ catIdx = Idle /\ category_projects = Idle /\ redirects = Idle
    /\ docs = Idle /\ writeLog = Idle /\ warnings = Idle /\ error = Idle
    /\ runNo = Idle /\ prevDocs = Idle

TestDataIdle == disk = Idle /\ diskAtCopy = Idle /\ taskLog = Idle

RemovingIdle ==
    /\ paths = Idle /\ present = Idle /\ presentOnEntry = Idle
    /\ already_there = Idle /\ ctx = Idle

EndpointIdle == requests = Idle /\ endpoints = Idle

NbheaderIdle ==
    /\ notebook = Idle /\ html_header = Idle /\ nbOriginal = Idle /\ nbOnce = Idle
    /\ applied = Idle

AE5Idle ==
    /\ remote = Idle /\ remoteBefore = Idle /\ calls = Idle /\ raised = Idle
    /\ ae5Runs = Idle

TasksIdle == TestDataIdle /\ RemovingIdle /\ EndpointIdle /\ NbheaderIdle /\ AE5Idle

inputs == <<sections, TAG_MAPPING, files>>

-----------------------------------------------------------------------------
(* Bounds *)

NumProjects == 3

-----------------------------------------------------------------------------
(* Program constants *)

gallery_path == "gallery"

labels_path == <<"_static", "labels">>

\* gallery.py 54-64; the star of the first name is written "*".
CATNAME_TO_CAT_MAP ==
    << [catname |-> "* Featured",            categories |-> <<"Featured">>],
       [catname |-> "Geospatial",            categories |-> <<"Geospatial">>],
       [catname |-> "Life Sciences",         categories |-> <<"Life Sciences">>],
       [catname |-> "Finance and Economics", categories |-> <<"Finance", "Economics">>],
       [catname |-> "Mathematics",           categories |-> <<"Mathematics">>],
       [catname |-> "Cybersecurity",         categories |-> <<"Cybersecurity">>],
       [catname |-> "Neuroscience",          categories |-> <<"Neuroscience">>],
       [catname |-> "Sports",                categories |-> <<"Sports">>] >>

Range(s) == {s[i] : i \in DOMAIN s}

ALL_VALID_CATEGORIES ==
    UNION {Range(CATNAME_TO_CAT_MAP[i].categories) : i \in DOMAIN CATNAME_TO_CAT_MAP}

\* The dict comprehension of gallery.py 66-68: a later catname of the same
\* category would replace an earlier one.
CAT_TO_CATNAME_MAP ==
    [category \in ALL_VALID_CATEGORIES |->
        LET holders == {i \in DOMAIN CATNAME_TO_CAT_MAP :
                          category \in Range(CATNAME_TO_CAT_MAP[i].categories)}
            last == CHOOSE i \in holders : \A j \in holders : j <= i
        IN  CATNAME_TO_CAT_MAP[last].catname]

CatNames == {CATNAME_TO_CAT_MAP[i].catname : i \in DOMAIN CATNAME_TO_CAT_MAP}

-----------------------------------------------------------------------------
(* Files and paths *)

File(dir, stem, ext) == [dir |-> dir, stem |-> stem, ext |-> ext]

basename(f) == <<f.stem, f.ext>>

\* Mutant: the stem of the main file is taken to be index whatever the file.
PathStem_always_index(f) == "index"

\* Path(f).stem
PathStem(f) == f.stem

ProjectDir(project) == <<gallery_path, project>>

ThumbFile(project, stem) == File(<<gallery_path, project, "thumbnails">>, stem, "png")

LabelFile(label) == File(labels_path, label, "svg")

\* Lexicographic order of the notebook stems of the model.
Stems == {"a", "b", "index"}

StemRank == [s \in Stems |->
                IF s = "a" THEN 1 ELSE IF s = "b" THEN 2 ELSE 3]

PathLess(f, g) == StemRank[f.stem] < StemRank[g.stem]

\* The orders in which a directory listing may enumerate the stems.
GlobOrders ==
    {o \in [1..Cardinality(Stems) -> Stems] : \A i, j \in DOMAIN o : i # j => o[i] # o[j]}

\* glob.glob(os.path.join(dir, '*.ipynb')): the notebooks of dir, in the
\* order ord of the directory listing.
glob(fs, dir, ord) ==
    LET listing == [i \in DOMAIN ord |-> File(dir, ord[i], "ipynb")]
    IN  SelectSeq(listing, LAMBDA f : f \in fs)

-----------------------------------------------------------------------------
(* Errors and warnings *)

\* An exception: its type, the values its message names, the fixed words of
\* its message, the function that raised it and the project that function
\* was working on.
Exception(type, names, says, raisedBy, project) ==
    [type |-> type, names |-> names, says |-> says, raisedBy |-> raisedBy,
     project |-> project]

NoError == Exception("none", {}, "none", "none", "none")

Raised(e) == e.type # "none"

Warning(kind, names, project) == [kind |-> kind, names |-> names, project |-> project]

-----------------------------------------------------------------------------
(* doc/conf.py: the redirect table *)

\* Mutant: the skip list is not applied.
find_notebooks_ignoring_skip(fs, project, skip, ord) == glob(fs, ProjectDir(project), ord)

\* dodo.py find_notebooks: the notebooks of the project whose file name is
\* not in the skip list of the project.
find_notebooks(fs, project, skip, ord) ==
    SelectSeq(glob(fs, ProjectDir(project), ord), LAMBDA nb : basename(nb) \notin skip)

\* The merge {**d1, **d2}: an entry of d2 replaces the entry of d1 with the
\* same key.
DictMerge(d1, d2) ==
    [k \in DOMAIN d1 \cup DOMAIN d2 |-> IF k \in DOMAIN d2 THEN d2[k] ELSE d1[k]]

\* A dict literal: a later pair replaces an earlier pair with the same key.
DictOf(pairs) ==
    [k \in {pairs[i][1] : i \in DOMAIN pairs} |->
        LET last == CHOOSE i \in DOMAIN pairs :
                        /\ pairs[i][1] = k
                        /\ \A j \in DOMAIN pairs : pairs[j][1] = k => j <= i
        IN  pairs[last][2]]

EmptyDict == [k \in {} |-> k]

top_level_redirects ==
    DictOf(<< <<<<"user_guide">>, <<"getting_started">>>>,
              <<<<"make_project">>, <<"contributing">>>>,
              <<<<"maintenance">>, <<"index">>>> >>)

project_direct_links ==
    DictOf(<<
       <<<<"attractors", "attractors">>, <<"gallery", "attractors", "attractors">>>>,
       <<<<"attractors", "attractors_panel">>, <<"gallery", "attractors", "attractors_panel">>>>,
       <<<<"attractors", "clifford_panel">>, <<"gallery", "attractors", "clifford_panel">>>>,
       <<<<"bay_trimesh", "bay_trimesh">>, <<"gallery", "bay_trimesh", "bay_trimesh">>>>,
       <<<<"boids", "boids">>, <<"gallery", "boids", "boids">>>>,
       <<<<"carbon_flux", "carbon_flux">>, <<"gallery", "carbon_flux", "carbon_flux">>>>,
       <<<<"census", "census">>, <<"gallery", "census", "census">>>>,
       <<<<"datashader_dashboard", "dashboard">>, <<"gallery", "datashader_dashboard", "datashader_dashboard">>>>,
       <<<<"euler", "euler">>, <<"gallery", "euler", "euler">>>>,
       <<<<"exoplanets", "exoplanets">>, <<"gallery", "exoplanets", "exoplanets">>>>,
       <<<<"gapminders", "gapminders">>, <<"gallery", "gapminders", "gapminders">>>>,
       <<<<"gerrymandering", "gerrymandering">>, <<"gallery", "gerrymandering", "gerrymandering">>>>,
       <<<<"glaciers", "glaciers">>, <<"gallery", "glaciers", "glaciers">>>>,
       <<<<"gull_tracking", "gull_tracking">>, <<"gallery", "gull_tracking", "gull_tracking">>>>,
       <<<<"heat_and_trees", "Heat_and_Trees">>, <<"gallery", "heat_and_trees", "heat_and_trees">>>>,
       <<<<"hipster_dynamics", "hipster_dynamics">>, <<"gallery", "hipster_dynamics", "hipster_dynamics">>>>,
       <<<<"iex_trading", "IEX_stocks">>, <<"gallery", "iex_trading", "IEX_stocks">>>>,
       <<<<"iex_trading", "IEX_trading">>, <<"gallery", "iex_trading", "IEX_trading">>>>,
       <<<<"landsat", "landsat">>, <<"gallery", "landsat", "landsat">>>>,
       <<<<"landsat_clustering", "landsat_clustering">>, <<"gallery", "landsat_clustering", "landsat_clustering">>>>,
       <<<<"lsystems", "lsystems">>, <<"gallery", "lsystems", "lsystems">>>>,
       <<<<"ml_annotators", "ml_annotators">>, <<"gallery", "ml_annotators", "ml_annotators">>>>,
       <<<<"network_packets", "network_packets">>, <<"gallery", "network_packets", "network_packets">>>>,
       <<<<"nyc_buildings", "nyc_buildings">>, <<"gallery", "nyc_buildings", "nyc_buildings">>>>,
       <<<<"nyc_taxi", "dashboard">>, <<"gallery", "nyc_taxi", "dashboard">>>>,
       <<<<"nyc_taxi", "nyc_taxi-nongeo">>, <<"gallery", "nyc_taxi", "nyc_taxi-nongeo">>>>,
       <<<<"nyc_taxi", "nyc_taxi">>, <<"gallery", "nyc_taxi", "nyc_taxi">>>>,
       <<<<"opensky", "opensky">>, <<"gallery", "opensky", "opensky">>>>,
       <<<<"osm", "osm-1billion">>, <<"gallery", "osm", "osm-1billion">>>>,
       <<<<"osm", "osm-3billion">>, <<"gallery", "osm", "osm-3billion">>>>,
       <<<<"penguin_crossfilter", "penguin_crossfilter">>, <<"gallery", "penguin_crossfilter", "penguin_crossfilter">>>>,
       <<<<"portfolio_optimizer", "portfolio">>, <<"gallery", "portfolio_optimizer", "portfolio_optimizer">>>>,
       <<<<"seattle_lidar", "Seattle_Lidar">>, <<"gallery", "seattle_lidar", "seattle_lidar">>>>,
       <<<<"ship_traffic", "ship_traffic">>, <<"gallery", "ship_traffic", "ship_traffic">>>>,
       <<<<"square_limit", "square_limit">>, <<"gallery", "square_limit", "square_limit">>>>,
       <<<<"sri_model", "sri_model">>, <<"gallery", "sri_model", "sri_model">>>>,
       <<<<"uk_researchers", "uk_researchers">>, <<"gallery", "uk_researchers", "uk_researchers">>>>
    >>)

\* Mutant: the project is left out of the target.
gallery_redirect_without_project(project, index) == <<gallery_path, index>>

\* Mutant: the project is redirected to its own bare path.
gallery_redirect_to_itself(project, index) == <<project>>

\* Line 247 of conf.py: the target of the redirect of a project.
gallery_redirect(project, index) == <<gallery_path, project, index>>

\* to_gallery_redirects: for each project, in order, the redirect from the
\* bare project path; the first project without a main notebook raises.
RECURSIVE to_gallery_redirects_loop(_, _, _, _, _)
to_gallery_redirects_loop(projects, i, fs, ord, acc) ==
    IF i > Len(projects) THEN acc
    ELSE LET project == projects[i].path
             notebooks == find_notebooks(fs, project, projects[i].skip, ord)
             nbstems == [k \in DOMAIN notebooks |-> PathStem(notebooks[k])]
         IN  IF "index" \in Range(nbstems)
             THEN to_gallery_redirects_loop(projects, i + 1, fs, ord,
                      [acc EXCEPT !.redirects =
                          DictMerge(@, DictOf(<< <<<<project>>, gallery_redirect(project, "index")>> >>))])
             ELSE IF Len(nbstems) = 1
             THEN to_gallery_redirects_loop(projects, i + 1, fs, ord,
                      [acc EXCEPT !.redirects =
                          DictMerge(@, DictOf(<< <<<<project>>, gallery_redirect(project, nbstems[1])>> >>))])
             ELSE [acc EXCEPT !.error =
                      Exception("RuntimeError", Range(nbstems), "Too many notebooks found",
                                "to_gallery_redirects", project)]

to_gallery_redirects(projects, fs, ord) ==
    to_gallery_redirects_loop(projects, 1, fs, ord, [redirects |-> EmptyDict, error |-> NoError])

\* rediraffe_redirects: the three tables merged, later ones winning.
rediraffe_redirects(computed) ==
    DictMerge(DictMerge(top_level_redirects, project_direct_links), computed)

-----------------------------------------------------------------------------
(* _extensions/gallery.py: pure functions *)

\* The characters of the category names.
CatnameChars ==
    DictOf(<<
              <<"* Featured", <<"*", " ", "F", "e", "a", "t", "u", "r", "e", "d">>>>,
              <<"Geospatial", <<"G", "e", "o", "s", "p", "a", "t", "i", "a", "l">>>>,
              <<"Life Sciences", <<"L", "i", "f", "e", " ", "S", "c", "i", "e", "n", "c", "e", "s">>>>,
              <<"Finance and Economics", <<"F", "i", "n", "a", "n", "c", "e", " ", "a", "n", "d", " ", "E", "c", "o", "n", "o", "m", "i", "c", "s">>>>,
              <<"Mathematics", <<"M", "a", "t", "h", "e", "m", "a", "t", "i", "c", "s">>>>,
              <<"Cybersecurity", <<"C", "y", "b", "e", "r", "s", "e", "c", "u", "r", "i", "t", "y">>>>,
              <<"Neuroscience", <<"N", "e", "u", "r", "o", "s", "c", "i", "e", "n", "c", "e">>>>,
              <<"Sports", <<"S", "p", "o", "r", "t", "s">>>>
    >>)

UpperToLower == DictOf(<< <<"C", "c">>, <<"E", "e">>, <<"F", "f">>, <<"G", "g">>, <<"L", "l">>, <<"M", "m">>, <<"N", "n">>, <<"S", "s">> >>)

LowerChars == {"a", "b", "c", "d", "e", "f", "h", "i", "l", "m", "n", "o", "p", "r", "s", "t", "u", "y"}

IsAlnumOrSpace(c) == c \in DOMAIN UpperToLower \cup LowerChars \cup {" "}

RECURSIVE Strip(_)
Strip(cs) ==
    IF cs = <<>> THEN cs
    ELSE IF Head(cs) = " " THEN Strip(Tail(cs))
    ELSE IF cs[Len(cs)] = " " THEN Strip(SubSeq(cs, 1, Len(cs) - 1))
    ELSE cs

\* Mutant: the pattern lacks its negation, letters, digits and spaces are
\* dropped and the rest is kept.
clean_category_name_keeping_symbols(category_name) ==
    LET kept == SelectSeq(CatnameChars[category_name], LAMBDA c : ~IsAlnumOrSpace(c))
        stripped == Strip(kept)
    IN  [i \in DOMAIN stripped |-> IF stripped[i] = " " THEN "_" ELSE stripped[i]]

\* clean_category_name: drop what is neither a letter, a digit nor a space,
\* strip, lower, replace the spaces by underscores.
clean_category_name(category_name) ==
    LET kept == SelectSeq(CatnameChars[category_name], IsAlnumOrSpace)
        stripped == Strip(kept)
        lowered == [i \in DOMAIN stripped |->
                       IF stripped[i] \in DOMAIN UpperToLower
                       THEN UpperToLower[stripped[i]] ELSE stripped[i]]
    IN  [i \in DOMAIN lowered |-> IF lowered[i] = " " THEN "_" ELSE lowered[i]]

\* The file names of the category pages: clean_category_name of each name of
\* the vocabulary.
CategoryFileNames == [category \in CatNames |-> clean_category_name(category)]

CategoryPagePath(category) == File(<<gallery_path>>, CategoryFileNames[category], "rst")

IndexPath == File(<<gallery_path>>, <<"i", "n", "d", "e", "x">>, "rst")

\* sort_index_first: the last index.ipynb of the list first, then the other
\* files sorted. The assert fails without an index.ipynb.
sort_index_first(fileList) ==
    LET hits == {i \in DOMAIN fileList : basename(fileList[i]) = <<"index", "ipynb">>}
        index_idx == CHOOSE i \in hits : \A j \in hits : j <= i
        rest == [i \in 1..(Len(fileList) - 1) |->
                    IF i < index_idx THEN fileList[i] ELSE fileList[i + 1]]
    IN  <<fileList[index_idx]>> \o SortSeq(rest, PathLess)

\* generate_labels_rst: one image line per label, in the order of the list;
\* the first label without an SVG file raises.
RECURSIVE generate_labels_rst_loop(_, _, _, _)
generate_labels_rst_loop(fs, labels, i, acc) ==
    IF i > Len(labels) THEN acc
    ELSE IF LabelFile(labels[i]) \notin fs
         THEN [acc EXCEPT !.error =
                  Exception("FileNotFoundError", {labels[i], labels_path},
                            "Label must have an SVG file in", "generate_labels_rst", "none")]
         ELSE generate_labels_rst_loop(fs, labels, i + 1,
                  [acc EXCEPT !.labels_str = Append(@, LabelFile(labels[i]))])

generate_labels_rst(fs, labels) ==
    generate_labels_rst_loop(fs, labels, 1, [labels_str |-> <<>>, error |-> NoError])

Card(title, section_path, thumbnail, labels) ==
    [title |-> title, section_path |-> section_path, thumbnail |-> thumbnail,
     labels |-> labels]

TocEntry(title, target) == [title |-> title, target |-> target]

EmptyGrid == [cards |-> <<>>, toctree_entries |-> <<>>, warnings |-> <<>>, error |-> NoError]

\* Mutant: several notebooks without an index.ipynb are served by the first
\* one listed instead of being skipped.
resolve_main_file_first_listed(globbed) ==
    IF Len(globbed) = 0
    THEN [outcome |-> "IndexError", main_file |-> "none", fileList |-> globbed]
    ELSE IF <<"index", "ipynb">> \in {basename(f) : f \in Range(globbed)} /\ Len(globbed) > 1
         THEN [outcome |-> "main", main_file |-> "index",
               fileList |-> sort_index_first(globbed)]
         ELSE [outcome |-> "main", main_file |-> PathStem(globbed[1]), fileList |-> globbed]

\* Lines 135-148 of generate_card_grid: the main file of a project. Several
\* notebooks need an index.ipynb, else the project is skipped; files[0] of
\* an empty list raises IndexError.
resolve_main_file(globbed) ==
    IF Len(globbed) > 1
    THEN IF <<"index", "ipynb">> \in {basename(f) : f \in Range(globbed)}
         THEN [outcome |-> "main", main_file |-> "index",
               fileList |-> sort_index_first(globbed)]
         ELSE [outcome |-> "skip", main_file |-> "none", fileList |-> globbed]
    ELSE IF Len(globbed) = 0
         THEN [outcome |-> "IndexError", main_file |-> "none", fileList |-> globbed]
         ELSE [outcome |-> "main", main_file |-> PathStem(globbed[1]), fileList |-> globbed]

\* Mutant: the existence check accepts every path.
os_path_isfile_any(fs, f) == TRUE

os_path_isfile(fs, f) == f \in fs

\* Mutant: the card is appended, the toctree entry is forgotten.
append_card_without_entry(acc, card, entry) ==
    [acc EXCEPT !.cards = Append(@, card)]

\* Lines 158-163: the card is appended to rst and the entry to
\* toctree_entries.
append_card(acc, card, entry) ==
    [acc EXCEPT !.cards = Append(@, card), !.toctree_entries = Append(@, entry)]

\* generate_card_grid: the loop over the projects of one list. acc holds the
\* cards appended to rst, toctree_entries, the warnings logged so far and the
\* exception that left the loop.
RECURSIVE generate_card_grid_loop(_, _, _, _, _)
generate_card_grid_loop(fs, projects, i, ord, acc) ==
    IF i > Len(projects) THEN acc
    ELSE
    LET section == projects[i]
        project_path == section.path
        title == section.title
        main == resolve_main_file(glob(fs, ProjectDir(project_path), ord))
        main_file == main.main_file
        thumb_path == ThumbFile(project_path, main_file)
        labels == generate_labels_rst(fs, section.labels)
        main_file_path == <<project_path, main_file>>
    IN  IF main.outcome = "skip"
        THEN generate_card_grid_loop(fs, projects, i + 1, ord,
                 [acc EXCEPT !.warnings = Append(@, Warning("no index", {title}, project_path))])
        ELSE IF main.outcome = "IndexError"
        THEN [acc EXCEPT !.error =
                 Exception("IndexError", {}, "list index out of range",
                           "generate_card_grid", project_path)]
        ELSE IF ~os_path_isfile(fs, thumb_path)
        THEN generate_card_grid_loop(fs, projects, i + 1, ord,
                 [acc EXCEPT !.warnings =
                     Append(@, Warning("no thumbnail", {project_path}, project_path))])
        ELSE IF Raised(labels.error)
        THEN [acc EXCEPT !.error = [labels.error EXCEPT !.project = project_path]]
        ELSE generate_card_grid_loop(fs, projects, i + 1, ord,
                 append_card(acc, Card(title, main_file_path, thumb_path, labels.labels_str),
                             TocEntry(title, main_file_path)))

generate_card_grid(fs, projects, ord) ==
    generate_card_grid_loop(fs, projects, 1, ord, EmptyGrid)

\* generate_toctree: the entries, in order, under a hidden toctree directive.
generate_toctree(entries) == entries

\* The text of a category page: the header, the overview and, when the
\* category has projects, the card grid followed by the toctree.
CategoryPage(category, hasGrid, cards, toctree) ==
    [title |-> category, hasGrid |-> hasGrid, cards |-> cards, toctree |-> toctree]

\* generate_category_page up to the write: the page, the warnings and the
\* exception of the card grid.
generate_category_page(fs, category, projects, ord) ==
    IF projects = <<>>
    THEN [page |-> CategoryPage(category, FALSE, <<>>, <<>>),
          warnings |-> <<>>, error |-> NoError]
    ELSE LET grid == generate_card_grid(fs, projects, ord)
         IN  [page |-> CategoryPage(category, TRUE, grid.cards,
                                    generate_toctree(grid.toctree_entries)),
              warnings |-> grid.warnings, error |-> grid.error]

\* The values of a dict, of which only the contents matter here.
DictValues(d) == {d[k] : k \in DOMAIN d}

DictGet(d, k, default) == IF k \in DOMAIN d THEN d[k] ELSE default

\* all_labels of generate_gallery_index: the set of the labels of the
\* sections of every category.
all_labels(catProjects) ==
    UNION {Range(sec.labels) : sec \in UNION {Range(l) : l \in DictValues(catProjects)}}

\* The orders in which iterating a set may enumerate its elements.
SetOrders(S) ==
    {o \in [1..Cardinality(S) -> S] : \A i, j \in DOMAIN o : i # j => o[i] # o[j]}

\* generate_label_buttons: one button per label, in the order of iteration.
generate_label_buttons(labels) == labels

IndexSection(category, link, hasGrid, cards) ==
    [category |-> category, link |-> link, hasGrid |-> hasGrid, cards |-> cards]

\* The loop of generate_gallery_index over the category names: a heading per
\* category, and for a category with projects its card grid and its entry in
\* the toctree.
RECURSIVE generate_gallery_index_loop(_, _, _, _, _)
generate_gallery_index_loop(fs, catProjects, i, ord, acc) ==
    IF i > Len(CATNAME_TO_CAT_MAP) THEN acc
    ELSE
    LET category == CATNAME_TO_CAT_MAP[i].catname
        category_link == CategoryFileNames[category]
        projects == DictGet(catProjects, category, <<>>)
        grid == generate_card_grid(fs, projects, ord)
    IN  IF projects = <<>>
        THEN generate_gallery_index_loop(fs, catProjects, i + 1, ord,
                 [acc EXCEPT !.sections =
                     Append(@, IndexSection(category, category_link, FALSE, <<>>))])
        ELSE IF Raised(grid.error)
        THEN [acc EXCEPT !.warnings = @ \o grid.warnings, !.error = grid.error]
        ELSE generate_gallery_index_loop(fs, catProjects, i + 1, ord,
                 [acc EXCEPT
                     !.sections = Append(@, IndexSection(category, category_link, TRUE, grid.cards)),
                     !.toctree_entries = Append(@, TocEntry(category, <<category_link>>)),
                     !.warnings = @ \o grid.warnings])

Reverse(s) == [i \in DOMAIN s |-> s[Len(s) + 1 - i]]

\* Mutant: the category sections and the toctree entries come out in the
\* reverse of the vocabulary order.
generate_gallery_index_backwards(fs, title, catProjects, ord, labelOrd) ==
    LET body == generate_gallery_index_loop(fs, catProjects, 1, ord,
                    [sections |-> <<>>, toctree_entries |-> <<>>,
                     warnings |-> <<>>, error |-> NoError])
    IN  [page |-> [title |-> title,
                   buttons |-> generate_label_buttons(labelOrd),
                   sections |-> Reverse(body.sections),
                   toctree |-> generate_toctree(Reverse(body.toctree_entries))],
         warnings |-> body.warnings, error |-> body.error]

\* generate_gallery_index up to the write: the root page, the warnings and
\* the exception. labelOrd is the order in which the set all_labels is
\* iterated.
generate_gallery_index(fs, title, catProjects, ord, labelOrd) ==
    LET body == generate_gallery_index_loop(fs, catProjects, 1, ord,
                    [sections |-> <<>>, toctree_entries |-> <<>>,
                     warnings |-> <<>>, error |-> NoError])
    IN  [page |-> [title |-> title,
                   buttons |-> generate_label_buttons(labelOrd),
                   sections |-> body.sections,
                   toctree |-> generate_toctree(body.toctree_entries)],
         warnings |-> body.warnings, error |-> body.error]

-----------------------------------------------------------------------------
(* The inputs of a build *)

\* all_project_names: the sorted names of the project directories.
ProjectNames == <<"attractors", "boids", "maintenance", "nyc_taxi", "osm">>

\* projname_to_title: underscores to spaces, then title case.
projname_to_title ==
    DictOf(<< <<"attractors", "Attractors">>, <<"boids", "Boids">>,
              <<"maintenance", "Maintenance">>, <<"nyc_taxi", "Nyc Taxi">>,
              <<"osm", "Osm">> >>)

\* The labels that have an icon in doc/_static/labels.
LabelIcons == {"hvplot", "panel"}

Kind(nbs, skip, thumbs, labels, category) ==
    [nbs |-> nbs, skip |-> skip, thumbs |-> thumbs, labels |-> labels, category |-> category]

\* The projects a catalog of the model is made of: what the directory of the
\* project holds (notebooks, thumbnails), and what the project declares (the
\* notebooks to skip, the labels, the categories).
ProjectKinds ==
    { Kind({"a"}, {}, {"a"}, <<"hvplot">>, <<"Geospatial">>),
      Kind({"b"}, {}, {"b"}, <<"panel", "hvplot">>, <<"Featured", "Geospatial">>),
      Kind({"index", "a", "b"}, {}, {"index"}, <<"hvplot">>, <<"Finance", "Economics">>),
      Kind({"index", "a", "b"}, {}, {"a"}, <<>>, <<"Geospatial">>),
      Kind({"a", "b"}, {}, {"a"}, <<>>, <<"Geospatial">>),
      Kind({"a", "b"}, {"b"}, {"a"}, <<"panel">>, <<"Geospatial">>),
      Kind({"index", "a"}, {"index"}, {"index", "a"}, <<>>, <<"Geospatial">>),
      Kind({}, {}, {}, <<>>, <<"Geospatial">>),
      Kind({"a"}, {}, {}, <<"hvplot">>, <<"Geospatial">>),
      Kind({"a"}, {}, {"a"}, <<"bokeh">>, <<"Geospatial">>),
      Kind({"a"}, {}, {}, <<"bokeh">>, <<"Geospatial">>),
      Kind({"a"}, {}, {"a"}, <<"bokeh">>, <<>>),
      Kind({"a"}, {}, {"a"}, <<"hvplot">>, <<"Geospatial", "Unknown Category">>) }

\* gallery_spec: the section of a project.
gallery_spec(name, kind) ==
    [path |-> name, title |-> projname_to_title[name], labels |-> kind.labels,
     skip |-> {<<nb, "ipynb">> : nb \in kind.skip}]

FilesOf(name, kind) ==
    {File(ProjectDir(name), nb, "ipynb") : nb \in kind.nbs}
        \cup {ThumbFile(name, t) : t \in kind.thumbs}

Projects == {ProjectNames[i] : i \in 1..NumProjects}

Init ==
    \E catalog \in [1..NumProjects -> ProjectKinds] :
        /\ sections = [i \in 1..NumProjects |-> gallery_spec(ProjectNames[i], catalog[i])]
        /\ TAG_MAPPING =
               [name \in {ProjectNames[i] : i \in {j \in 1..NumProjects : catalog[j].category # <<>>}} |->
                   [category |-> catalog[CHOOSE i \in 1..NumProjects : ProjectNames[i] = name].category]]
        /\ files = UNION {FilesOf(ProjectNames[i], catalog[i]) : i \in 1..NumProjects}
                       \cup {LabelFile(l) : l \in LabelIcons}
        /\ pc = "conf"
        /\ catIdx = 1
        /\ category_projects = EmptyDict
        /\ redirects = EmptyDict
        /\ docs = EmptyDict
        /\ writeLog = <<>>
        /\ warnings = <<>>
        /\ error = NoError
        /\ runNo = 1
        /\ prevDocs = EmptyDict
        /\ TasksIdle

-----------------------------------------------------------------------------
(* The steps of a build *)

\* conf.py is executed: rediraffe_redirects is built, or to_gallery_redirects
\* raises and the build stops.
LoadConf ==
    /\ pc = "conf"
    /\ \E ord \in GlobOrders :
          LET r == to_gallery_redirects(sections, files, ord)
          IN  IF Raised(r.error)
              THEN /\ pc' = "aborted"
                   /\ error' = r.error
                   /\ UNCHANGED redirects
              ELSE /\ pc' = "galleries"
                   /\ redirects' = rediraffe_redirects(r.redirects)
                   /\ UNCHANGED error
    /\ UNCHANGED <<taskVars, inputs, catIdx, category_projects, docs, writeLog, warnings,
                   runNo, prevDocs>>

\* Mutant: the section is put at the head of the list of its catname.
index_category_prepend(acc, section, category) ==
    IF category \notin ALL_VALID_CATEGORIES
    THEN [acc EXCEPT !.error =
             Exception("ValueError", {category, section.path}, "Invalid category found in project",
                       "generate_galleries", section.path)]
    ELSE LET catname == CAT_TO_CATNAME_MAP[category]
             sofar == DictGet(acc.category_projects, catname, <<>>)
         IN  [acc EXCEPT !.category_projects =
                 DictMerge(@, DictOf(<< <<catname, <<section>> \o sofar>> >>))]

\* Mutant: an unknown category is dropped instead of raising.
index_category_drop_unknown(acc, section, category) ==
    IF category \notin ALL_VALID_CATEGORIES
    THEN acc
    ELSE LET catname == CAT_TO_CATNAME_MAP[category]
             sofar == DictGet(acc.category_projects, catname, <<>>)
         IN  [acc EXCEPT !.category_projects =
                 DictMerge(@, DictOf(<< <<catname, Append(sofar, section)>> >>))]

\* Mutant: the section is put in the list of a category name only when that
\* list is created; later sections of the same category name are lost.
index_category_only_when_new(acc, section, category) ==
    IF category \notin ALL_VALID_CATEGORIES
    THEN [acc EXCEPT !.error =
             Exception("ValueError", {category, section.path}, "Invalid category found in project",
                       "generate_galleries", section.path)]
    ELSE LET catname == CAT_TO_CATNAME_MAP[category]
         IN  IF catname \in DOMAIN acc.category_projects
             THEN acc
             ELSE [acc EXCEPT !.category_projects =
                      DictMerge(@, DictOf(<< <<catname, <<section>> >> >>))]

\* Lines 188-194 of generate_galleries: an unknown category raises, a known
\* one appends the section to the list of its catname.
index_category(acc, section, category) ==
    IF category \notin ALL_VALID_CATEGORIES
    THEN [acc EXCEPT !.error =
             Exception("ValueError", {category, section.path}, "Invalid category found in project",
                       "generate_galleries", section.path)]
    ELSE LET catname == CAT_TO_CATNAME_MAP[category]
             sofar == DictGet(acc.category_projects, catname, <<>>)
         IN  [acc EXCEPT !.category_projects =
                 DictMerge(@, DictOf(<< <<catname, Append(sofar, section)>> >>))]

\* The first loop of generate_galleries, over the sections and the categories
\* of each, until one raises.
RECURSIVE index_categories_loop(_, _, _, _, _)
index_categories_loop(secs, tags, i, j, acc) ==
    IF i > Len(secs) \/ Raised(acc.error) THEN acc
    ELSE
    LET section == secs[i]
        info == DictGet(tags, section.path, EmptyDict)
        categories == DictGet(info, "category", <<>>)
    IN  IF j > Len(categories)
        THEN index_categories_loop(secs, tags, i + 1, 1, acc)
        ELSE index_categories_loop(secs, tags, i, j + 1,
                                   index_category(acc, section, categories[j]))

index_categories(secs, tags) ==
    index_categories_loop(secs, tags, 1, 1,
                          [category_projects |-> EmptyDict, error |-> NoError])

IndexCategories ==
    /\ pc = "galleries"
    /\ LET r == index_categories(sections, TAG_MAPPING)
       IN  IF Raised(r.error)
           THEN /\ pc' = "aborted"
                /\ error' = r.error
                /\ UNCHANGED category_projects
           ELSE /\ pc' = "pages"
                /\ category_projects' = r.category_projects
                /\ UNCHANGED error
    /\ UNCHANGED <<taskVars, inputs, catIdx, redirects, docs, writeLog, warnings, runNo, prevDocs>>

\* Mutant: the page of a category without projects is not written.
WriteDoc_skip_empty(path, page) ==
    IF path # IndexPath /\ ~page.hasGrid
    THEN UNCHANGED <<docs, writeLog>>
    ELSE /\ docs' = DictMerge(docs, DictOf(<< <<path, page>> >>))
         /\ writeLog' = Append(writeLog, path)

\* open(path, 'w') and write.
WriteDoc(path, page) ==
    /\ docs' = DictMerge(docs, DictOf(<< <<path, page>> >>))
    /\ writeLog' = Append(writeLog, path)

\* One turn of the second loop of generate_galleries: generate_category_page
\* for the next category name.
GenerateCategoryPage ==
    /\ pc = "pages"
    /\ \E ord \in GlobOrders :
          LET category == CATNAME_TO_CAT_MAP[catIdx].catname
              projects == DictGet(category_projects, category, <<>>)
              r == generate_category_page(files, category, projects, ord)
          IN  /\ warnings' = warnings \o r.warnings
              /\ IF Raised(r.error)
                 THEN /\ pc' = "aborted"
                      /\ error' = r.error
                      /\ UNCHANGED <<catIdx, docs, writeLog>>
                 ELSE /\ WriteDoc(CategoryPagePath(category), r.page)
                      /\ catIdx' = catIdx + 1
                      /\ pc' = IF catIdx = Len(CATNAME_TO_CAT_MAP) THEN "index" ELSE "pages"
                      /\ UNCHANGED error
    /\ UNCHANGED <<taskVars, inputs, category_projects, redirects, runNo, prevDocs>>

\* generate_gallery_index: the root index of the gallery.
GenerateGalleryIndex ==
    /\ pc = "index"
    /\ \E ord \in GlobOrders :
       \E labelOrd \in SetOrders(all_labels(category_projects)) :
          LET r == generate_gallery_index(files, "Gallery", category_projects, ord, labelOrd)
          IN  /\ warnings' = warnings \o r.warnings
              /\ IF Raised(r.error)
                 THEN /\ pc' = "aborted"
                      /\ error' = r.error
                      /\ UNCHANGED <<docs, writeLog>>
                 ELSE /\ WriteDoc(IndexPath, r.page)
                      /\ pc' = "done"
                      /\ UNCHANGED error
    /\ UNCHANGED <<taskVars, inputs, catIdx, category_projects, redirects, runNo, prevDocs>>

\* The build is run a second time on the same catalog and filesystem; the
\* documents of the first build stay on disk until they are overwritten.
Rerun ==
    /\ pc \in {"done", "aborted"}
    /\ runNo = 1
    /\ runNo' = 2
    /\ prevDocs' = docs
    /\ pc' = "conf"
    /\ catIdx' = 1
    /\ category_projects' = EmptyDict
    /\ redirects' = EmptyDict
    /\ writeLog' = <<>>
    /\ warnings' = <<>>
    /\ error' = NoError
    /\ UNCHANGED <<taskVars, inputs, docs>>

Next ==
    \/ LoadConf
    \/ IndexCategories
    \/ GenerateCategoryPage
    \/ GenerateGalleryIndex

Spec == Init /\ [][Next]_vars

NextTwice == Next \/ Rerun

SpecTwice == Init /\ [][NextTwice]_vars

-----------------------------------------------------------------------------
(* Vocabulary of the properties *)

\* The stems of the notebooks the directory of a project holds.
NotebooksOnDisk(project) ==
    {f.stem : f \in {g \in files : g.dir = ProjectDir(project) /\ g.ext = "ipynb"}}

MultiNoIndex(project) ==
    Cardinality(NotebooksOnDisk(project)) >= 2 /\ "index" \notin NotebooksOnDisk(project)

RECURSIVE Concat(_)
Concat(seqs) == IF seqs = <<>> THEN <<>> ELSE Head(seqs) \o Concat(Tail(seqs))

\* The cards of a written document, in the order of the text.
CardsOf(path) ==
    IF path = IndexPath
    THEN Concat([i \in DOMAIN docs[path].sections |-> docs[path].sections[i].cards])
    ELSE docs[path].cards

\* The toctree entries a card grid with these cards stands for.
EntriesOfCards(cards) ==
    [i \in DOMAIN cards |-> TocEntry(cards[i].title, cards[i].section_path)]

\* The entries of the toctree of a written document that point into a
\* project: the target of a project entry is <project>/<stem>.
ProjectEntriesOf(path) ==
    SelectSeq(docs[path].toctree, LAMBDA e : Len(e.target) = 2)

\* The projects with a card, and with a toctree entry, in a written document.
CardedProjects(path) == {c.section_path[1] : c \in Range(CardsOf(path))}

EntryProjects(path) == {e.target[1] : e \in Range(ProjectEntriesOf(path))}

CategoryPagePaths == DOMAIN docs \ {IndexPath}

\* The lists of projects the build handed to the card grid.
ListOf(category) == DictGet(category_projects, category, <<>>)

PathsOfList(list) == [i \in DOMAIN list |-> list[i].path]

-----------------------------------------------------------------------------
(* The claims *)

\* C1 as stated: in every written document, category page or root index, the
\* projects with a card are, in membership and order, the project entries of
\* the toctree of the document.
C1_CardsEqualToctreeEverywhere ==
    \A path \in DOMAIN docs : EntriesOfCards(CardsOf(path)) = ProjectEntriesOf(path)

\* C1 amended: on every category page the cards and the toctree entries are
\* the same projects in the same order; the toctree of the root index has no
\* project entry, it lists in order the pages of the categories that have a
\* card grid on the root index.
C1_CardsEqualToctreeOnCategoryPages ==
    /\ \A path \in CategoryPagePaths :
          EntriesOfCards(docs[path].cards) = docs[path].toctree
    /\ IndexPath \in DOMAIN docs =>
          LET withGrid == SelectSeq(docs[IndexPath].sections, LAMBDA sec : sec.hasGrid)
          IN  docs[IndexPath].toctree =
                  [i \in DOMAIN withGrid |-> TocEntry(withGrid[i].category, <<withGrid[i].link>>)]

\* C1 witness: the build is done, a category page shows at least two cards
\* but fewer cards than its list has projects, and the root index shows cards.
C1_Witness ==
    /\ pc = "done"
    /\ \E i \in DOMAIN CATNAME_TO_CAT_MAP :
          LET category == CATNAME_TO_CAT_MAP[i].catname
              page == docs[CategoryPagePath(category)]
          IN  /\ Len(page.cards) >= 2
              /\ Len(page.cards) < Len(ListOf(category))
              /\ Len(page.toctree) = Len(page.cards)
    /\ CardsOf(IndexPath) # <<>>

\* C2: a project with two or more notebooks, none of them index, has no card
\* and no toctree entry in any written document.
C2_MultiNoIndexAbsent ==
    \A project \in Projects :
        MultiNoIndex(project) =>
            \A path \in DOMAIN docs :
                project \notin CardedProjects(path) \cup EntryProjects(path)

\* C2 witness: the build is done, a project with several notebooks and no
\* index is in the list of a category, and the page of that category shows a
\* card of another project.
C2_Witness ==
    /\ pc = "done"
    /\ \E i \in DOMAIN CATNAME_TO_CAT_MAP :
          LET category == CATNAME_TO_CAT_MAP[i].catname
          IN  /\ \E project \in Range(PathsOfList(ListOf(category))) : MultiNoIndex(project)
              /\ docs[CategoryPagePath(category)].cards # <<>>

\* C3 as stated: a project with two or more notebooks and no index never
\* aborts the build.
C3_MultiNoIndexNeverAborts ==
    \A project \in Projects :
        MultiNoIndex(project) => ~(pc = "aborted" /\ error.project = project)

\* C4 as stated: a second build on the same catalog and filesystem ends with
\* the same documents as the first.
C4_RebuildIdentical ==
    (runNo = 2 /\ pc = "done") => docs = prevDocs

\* C5 as stated: on a category page, a carded project with two or more
\* notebooks, index among them, has its notebooks in the toctree, index first
\* and the others in ascending order of file name.
C5_NestedEntriesIndexFirst ==
    \A path \in CategoryPagePaths :
        \A project \in CardedProjects(path) :
            (Cardinality(NotebooksOnDisk(project)) >= 2 /\ "index" \in NotebooksOnDisk(project)) =>
                \A ord \in GlobOrders :
                    LET sorted == sort_index_first(glob(files, ProjectDir(project), ord))
                        entries == SelectSeq(ProjectEntriesOf(path),
                                             LAMBDA e : e.target[1] = project)
                    IN  [i \in DOMAIN entries |-> entries[i].target] =
                            [i \in DOMAIN sorted |-> <<project, PathStem(sorted[i])>>]

\* The categories a project declares in tags.yml.
DeclaredCategories(project) ==
    DictGet(DictGet(TAG_MAPPING, project, EmptyDict), "category", <<>>)

HasUnknownCategory ==
    \E project \in Projects :
        \E category \in Range(DeclaredCategories(project)) :
            category \notin ALL_VALID_CATEGORIES

\* C6: when a project declares a category outside the vocabulary,
\* generate_galleries never gets to the pages: no document is written, and
\* the exception it raises is a ValueError naming an unknown category and the
\* project that declares it.
C6_UnknownCategoryAbortsBeforeWrite ==
    HasUnknownCategory =>
        /\ pc \notin {"pages", "index", "done"}
        /\ writeLog = <<>>
        /\ DOMAIN docs = {}
        /\ (pc = "aborted" /\ error.raisedBy # "to_gallery_redirects") =>
              /\ error.type = "ValueError"
              /\ \E project \in Projects :
                    \E category \in Range(DeclaredCategories(project)) :
                        /\ category \notin ALL_VALID_CATEGORIES
                        /\ error.names = {category, project}

\* C6 witness: the build was stopped by generate_galleries on an unknown
\* category, after conf.py had built the redirect table.
C6_Witness ==
    /\ HasUnknownCategory
    /\ pc = "aborted"
    /\ error.raisedBy = "generate_galleries"
    /\ DOMAIN redirects # {}

\* C7 as stated: a build whose catalog has a label without icon file does not
\* complete.
C7_MissingIconAborts ==
    (\E i \in DOMAIN sections :
        \E label \in Range(sections[i].labels) : LabelFile(label) \notin files)
    => pc # "done"

\* The main notebook of a project as the card grid resolves it, and whether
\* its thumbnail is there.
HasMainFile(project) ==
    \/ Cardinality(NotebooksOnDisk(project)) = 1
    \/ "index" \in NotebooksOnDisk(project)

MainStemOnDisk(project) ==
    IF Cardinality(NotebooksOnDisk(project)) = 1
    THEN CHOOSE stem \in NotebooksOnDisk(project) : TRUE
    ELSE "index"

ThumbnailMissing(project) ==
    HasMainFile(project) /\ ThumbFile(project, MainStemOnDisk(project)) \notin files

Rendered(project) == HasMainFile(project) /\ ~ThumbnailMissing(project)

\* C8: a project whose thumbnail is missing has no card and no toctree entry
\* in any document, it is never the project on which the gallery generation
\* raises, and every written card grid shows the other projects of its list
\* (those with a main notebook and a thumbnail) in the order of the list.
C8_MissingThumbnailSkipped ==
    /\ \A project \in Projects :
          ThumbnailMissing(project) =>
              /\ \A path \in DOMAIN docs :
                    project \notin CardedProjects(path) \cup EntryProjects(path)
              /\ ~(pc = "aborted" /\ error.project = project
                     /\ error.raisedBy \in {"generate_card_grid", "generate_labels_rst"})
    /\ \A i \in DOMAIN CATNAME_TO_CAT_MAP :
          LET category == CATNAME_TO_CAT_MAP[i].catname
              expected == SelectSeq(PathsOfList(ListOf(category)), Rendered)
          IN  /\ CategoryPagePath(category) \in DOMAIN docs =>
                    LET cards == docs[CategoryPagePath(category)].cards
                    IN  [k \in DOMAIN cards |-> cards[k].section_path[1]] = expected
              /\ IndexPath \in DOMAIN docs =>
                    LET cards == docs[IndexPath].sections[i].cards
                    IN  [k \in DOMAIN cards |-> cards[k].section_path[1]] = expected

\* C8 witness: the build is done and the list of a category holds a project
\* without thumbnail between two projects that both have their card on the
\* page of the category.
C8_Witness ==
    /\ pc = "done"
    /\ \E i \in DOMAIN CATNAME_TO_CAT_MAP :
          LET category == CATNAME_TO_CAT_MAP[i].catname
              list == PathsOfList(ListOf(category))
          IN  /\ Len(list) >= 3
              /\ ThumbnailMissing(list[2])
              /\ {list[1], list[3]} \subseteq CardedProjects(CategoryPagePath(category))
              /\ list[2] \notin CardedProjects(CategoryPagePath(category))

\* C9 as stated: the exception raised on a project without any notebook names
\* the project and says that it has no displayable content.
C9_NoContentErrorNamesProject ==
    \A project \in Projects :
        (NotebooksOnDisk(project) = {} /\ pc = "aborted" /\ error.project = project) =>
            /\ project \in error.names
            /\ error.says = "no displayable content"

\* C10: for a project whose directory holds exactly one notebook, every card
\* of the project links to <project>/<stem> and shows
\* <gallery>/<project>/thumbnails/<stem>.png, and the redirect of the project
\* goes to gallery/<project>/<stem>, where stem is the stem of that notebook.
C10_SingleNotebookIsMain ==
    \A project \in Projects :
        \A stem \in Stems :
            NotebooksOnDisk(project) = {stem} =>
                /\ \A path \in DOMAIN docs :
                      \A card \in Range(CardsOf(path)) :
                          card.section_path[1] = project =>
                              /\ card.section_path = <<project, stem>>
                              /\ card.thumbnail = ThumbFile(project, stem)
                /\ <<project>> \in DOMAIN redirects =>
                      redirects[<<project>>] = <<gallery_path, project, stem>>

\* C10 witness: the build is done and a project whose only notebook is b has
\* a card on a category page, a card on the root index and its redirect.
C10_Witness ==
    /\ pc = "done"
    /\ \E project \in Projects :
          /\ NotebooksOnDisk(project) = {"b"}
          /\ project \in CardedProjects(IndexPath)
          /\ \E path \in CategoryPagePaths : project \in CardedProjects(path)
          /\ redirects[<<project>>] = <<gallery_path, project, "b">>

\* The section of a project, and the stems of its notebooks that its skip
\* list does not name.
SectionOf(project) == sections[CHOOSE i \in DOMAIN sections : sections[i].path = project]

NotSkipped(project) ==
    {stem \in NotebooksOnDisk(project) : <<stem, "ipynb">> \notin SectionOf(project).skip}

\* C11 as stated: a project of a category list with exactly one notebook left
\* after its skip list, whose thumbnail is present, has on the page of the
\* category a card that links to that notebook.
C11_SkipAppliedByCardRenderer ==
    pc = "done" =>
        \A i \in DOMAIN CATNAME_TO_CAT_MAP :
            LET category == CATNAME_TO_CAT_MAP[i].catname
            IN  \A project \in Range(PathsOfList(ListOf(category))) :
                    \A stem \in Stems :
                        (NotSkipped(project) = {stem} /\ ThumbFile(project, stem) \in files) =>
                            \E card \in Range(docs[CategoryPagePath(category)].cards) :
                                card.section_path = <<project, stem>>

\* The redirect table has been built: conf.py was loaded without exception.
TableBuilt == redirects # EmptyDict

ProjectSources == {<<project>> : project \in Projects}

StaticRedirects == DictMerge(top_level_redirects, project_direct_links)

\* C12 as stated: when the redirect table has been built, no source path was
\* produced by more than one of its three inputs.
C12_DuplicateSourceIsFatal ==
    TableBuilt =>
        /\ DOMAIN top_level_redirects \cap DOMAIN project_direct_links = {}
        /\ ProjectSources \cap DOMAIN StaticRedirects = {}

\* A target that is a notebook of a project of the catalog.
TargetsCatalogProject(target) ==
    /\ Len(target) = 3
    /\ target[1] = gallery_path
    /\ target[2] \in Projects
    /\ target[3] \in NotebooksOnDisk(target[2])

\* C13 as stated: every target of the redirect table is a document of a
\* project of the catalog.
C13_EveryTargetInCatalog ==
    \A source \in DOMAIN redirects : TargetsCatalogProject(redirects[source])

\* C13 amended: every target of an entry computed by to_gallery_redirects is
\* a notebook of the project of the catalog the entry is for; the other
\* entries keep the fixed targets of the static tables, which need not be
\* projects of the catalog.
C13_ComputedTargetsInCatalog ==
    \A source \in DOMAIN redirects :
        IF source \in ProjectSources
        THEN /\ TargetsCatalogProject(redirects[source])
             /\ redirects[source][2] = source[1]
        ELSE redirects[source] = StaticRedirects[source]

\* C13 witness: the table is built, it has the entry of every project and an
\* entry of a static table whose target is no project of the catalog.
C13_Witness ==
    /\ TableBuilt
    /\ ProjectSources \subseteq DOMAIN redirects
    /\ \E source \in DOMAIN redirects \ ProjectSources :
          ~TargetsCatalogProject(redirects[source])

\* C14: when the table is built, the bare path of every project is
\* redirected to gallery/<project>/<stem>, stem being index when index is
\* among the notebooks left by the skip list and else the only notebook left.
C14_BarePathReachesMain ==
    TableBuilt =>
        \A project \in Projects :
            /\ <<project>> \in DOMAIN redirects
            /\ IF "index" \in NotSkipped(project)
               THEN redirects[<<project>>] = <<gallery_path, project, "index">>
               ELSE \E stem \in Stems :
                       /\ NotSkipped(project) = {stem}
                       /\ redirects[<<project>>] = <<gallery_path, project, stem>>

\* C14 witness: the table is built for a catalog with a project that has
\* index among several notebooks, a project whose only notebook is b, and a
\* project whose skip list names its index.
C14_Witness ==
    /\ TableBuilt
    /\ \E project \in Projects :
          {"index", "a"} \subseteq NotSkipped(project)
    /\ \E project \in Projects : NotSkipped(project) = {"b"}
    /\ \E project \in Projects :
          "index" \in NotebooksOnDisk(project) \ NotSkipped(project)

\* Following the redirects from a path never comes back to a path already
\* visited.
RECURSIVE EndsWithoutCycle(_, _)
EndsWithoutCycle(path, visited) ==
    IF path \in visited THEN FALSE
    ELSE IF path \notin DOMAIN redirects THEN TRUE
    ELSE EndsWithoutCycle(redirects[path], visited \cup {path})

\* C15: the redirect table has no cycle.
C15_NoRedirectCycle ==
    \A source \in DOMAIN redirects : EndsWithoutCycle(source, {})

\* C15 witness: the table is built from its three inputs, the entry of a
\* project having replaced the entry of a static table.
C15_Witness ==
    /\ TableBuilt
    /\ DOMAIN StaticRedirects \subseteq DOMAIN redirects
    /\ \E source \in ProjectSources \cap DOMAIN StaticRedirects :
          redirects[source] # StaticRedirects[source]

\* The position of a project in the catalog, and of a category name in the
\* vocabulary.
CatalogIndex(project) == CHOOSE i \in DOMAIN sections : sections[i].path = project

VocabularyIndex(category) ==
    CHOOSE i \in DOMAIN CATNAME_TO_CAT_MAP : CATNAME_TO_CAT_MAP[i].catname = category

InCatalogOrder(projectSeq) ==
    \A i, j \in DOMAIN projectSeq :
        i < j => CatalogIndex(projectSeq[i]) <= CatalogIndex(projectSeq[j])

ProjectsOfCards(cards) == [k \in DOMAIN cards |-> cards[k].section_path[1]]

\* C16: the list of every category, the cards of its page and the cards of
\* its section of the root index are in catalog order.
C16_CategoryListsInCatalogOrder ==
    \A i \in DOMAIN CATNAME_TO_CAT_MAP :
        LET category == CATNAME_TO_CAT_MAP[i].catname
        IN  /\ InCatalogOrder(PathsOfList(ListOf(category)))
            /\ CategoryPagePath(category) \in DOMAIN docs =>
                  InCatalogOrder(ProjectsOfCards(docs[CategoryPagePath(category)].cards))
            /\ IndexPath \in DOMAIN docs =>
                  InCatalogOrder(ProjectsOfCards(docs[IndexPath].sections[i].cards))

\* C16 witness: the build is done and the page of a category shows the cards
\* of two different projects.
C16_Witness ==
    /\ pc = "done"
    /\ \E i \in DOMAIN CATNAME_TO_CAT_MAP :
          LET cards == docs[CategoryPagePath(CATNAME_TO_CAT_MAP[i].catname)].cards
          IN  \E k, l \in DOMAIN cards :
                  k < l /\ cards[k].section_path[1] # cards[l].section_path[1]

\* C17: once the loop over the vocabulary is over, every category name has
\* its page, and the root index of a finished build has a section under the
\* name of every category, also of those without project.
C17_EveryCategoryHasPageAndSection ==
    /\ pc \in {"index", "done"} =>
          \A i \in DOMAIN CATNAME_TO_CAT_MAP :
              LET category == CATNAME_TO_CAT_MAP[i].catname
              IN  /\ CategoryPagePath(category) \in DOMAIN docs
                  /\ docs[CategoryPagePath(category)].title = category
    /\ pc = "done" =>
          /\ IndexPath \in DOMAIN docs
          /\ \A i \in DOMAIN CATNAME_TO_CAT_MAP :
                \E k \in DOMAIN docs[IndexPath].sections :
                    docs[IndexPath].sections[k].category = CATNAME_TO_CAT_MAP[i].catname

\* C17 witness: the build is done, a category without project has its page
\* without card grid while another category has cards.
C17_Witness ==
    /\ pc = "done"
    /\ \E i, j \in DOMAIN CATNAME_TO_CAT_MAP :
          /\ ListOf(CATNAME_TO_CAT_MAP[i].catname) = <<>>
          /\ ~docs[CategoryPagePath(CATNAME_TO_CAT_MAP[i].catname)].hasGrid
          /\ ~docs[IndexPath].sections[i].hasGrid
          /\ docs[CategoryPagePath(CATNAME_TO_CAT_MAP[j].catname)].cards # <<>>

\* C18: the sections of the root index are those of the vocabulary in the
\* order of the vocabulary, and the entries of its toctree follow that order.
C18_RootIndexInVocabularyOrder ==
    IndexPath \in DOMAIN docs =>
        LET page == docs[IndexPath]
        IN  /\ [k \in DOMAIN page.sections |-> page.sections[k].category] =
                   [k \in DOMAIN CATNAME_TO_CAT_MAP |-> CATNAME_TO_CAT_MAP[k].catname]
            /\ \A k, l \in DOMAIN page.toctree :
                   k < l => VocabularyIndex(page.toctree[k].title)
                                < VocabularyIndex(page.toctree[l].title)

\* C18 witness: the build is done, the toctree of the root index has two
\* entries, and an earlier project of the catalog declares a category that
\* is later in the vocabulary than a category of a later project.
C18_Witness ==
    /\ pc = "done"
    /\ Len(docs[IndexPath].toctree) >= 2
    /\ \E i, j \in DOMAIN sections :
          /\ i < j
          /\ \E c \in Range(DeclaredCategories(sections[i].path)) :
             \E d \in Range(DeclaredCategories(sections[j].path)) :
                 VocabularyIndex(CAT_TO_CATNAME_MAP[c]) > VocabularyIndex(CAT_TO_CATNAME_MAP[d])

\* The file names of the category pages are pairwise distinct and none of
\* them is index.
FileNamesDistinct ==
    \A c, d \in CatNames :
        /\ c # d => CategoryFileNames[c] # CategoryFileNames[d]
        /\ CategoryFileNames[c] # IndexPath.stem

\* C19: no path is written twice during a build, a finished build has
\* written the page of every category and the root index, and the file names
\* of the category pages are pairwise distinct and none is index.
C19_EachDocumentWrittenOnce ==
    /\ \A i, j \in DOMAIN writeLog : i # j => writeLog[i] # writeLog[j]
    /\ pc = "done" =>
          /\ Len(writeLog) = Len(CATNAME_TO_CAT_MAP) + 1
          /\ Range(writeLog) =
                 {CategoryPagePath(category) : category \in CatNames} \cup {IndexPath}
    /\ FileNamesDistinct

\* C19 witness: the build is done, the root index was written last and some
\* page has cards.
C19_Witness ==
    /\ pc = "done"
    /\ writeLog[Len(writeLog)] = IndexPath
    /\ \E path \in CategoryPagePaths : docs[path].cards # <<>>

\* C20 as stated: a warning is emitted only at the end of the build.
C20_WarningsOnlyAtEnd ==
    warnings # <<>> => pc \in {"done", "aborted"}

\* A sequence that holds no element twice.
NoDuplicates(seq) == \A i, j \in DOMAIN seq : seq[i] = seq[j] => i = j

\* C26 as stated: no project is twice in the list of a category, and no
\* category page and no category section of the root index shows two cards
\* of one project.
C26_ProjectOncePerCategory ==
    /\ \A i \in DOMAIN CATNAME_TO_CAT_MAP :
          NoDuplicates(PathsOfList(ListOf(CATNAME_TO_CAT_MAP[i].catname)))
    /\ \A path \in CategoryPagePaths :
          NoDuplicates(ProjectsOfCards(docs[path].cards))
    /\ IndexPath \in DOMAIN docs =>
          \A i \in DOMAIN docs[IndexPath].sections :
              NoDuplicates(ProjectsOfCards(docs[IndexPath].sections[i].cards))

\* C27 as stated: whenever a written document shows a card that links to
\* <project>/<stem>, the redirect table maps the bare path of the project to
\* gallery/<project>/<stem>, with the same stem.
C27_CardAndRedirectAgree ==
    \A path \in DOMAIN docs :
        \A card \in Range(CardsOf(path)) :
            LET project == card.section_path[1]
                stem == card.section_path[2]
            IN  /\ <<project>> \in DOMAIN redirects
                /\ redirects[<<project>>] = <<gallery_path, project, stem>>

\* The projects with a card on some category page, and in some category
\* section of the root index.
OnSomeCategoryPage(project) ==
    \E path \in CategoryPagePaths : project \in CardedProjects(path)

InSomeIndexSection(project) ==
    /\ IndexPath \in DOMAIN docs
    /\ \E i \in DOMAIN docs[IndexPath].sections :
          project \in Range(ProjectsOfCards(docs[IndexPath].sections[i].cards))

\* C28 as stated: when the build is done, every project of the catalog with a
\* main notebook and its thumbnail has a card on at least one category page
\* and in at least one category section of the root index.
C28_EveryResolvableProjectCarded ==
    pc = "done" =>
        \A project \in Projects :
            Rendered(project) => OnSomeCategoryPage(project) /\ InSomeIndexSection(project)

\* C28 amended: when the build is done, every project that declares at least
\* one category and has a main notebook and its thumbnail has a card on at
\* least one category page and in at least one category section of the root
\* index; a project that declares no category has no card anywhere.
C28_EveryCategorisedProjectCarded ==
    pc = "done" =>
        \A project \in Projects :
            IF DeclaredCategories(project) = <<>>
            THEN \A path \in DOMAIN docs : project \notin CardedProjects(path)
            ELSE Rendered(project) =>
                     OnSomeCategoryPage(project) /\ InSomeIndexSection(project)

\* C28 witness: the build is done, two projects with a main notebook and a
\* thumbnail share a category and both have a card on a category page, and a
\* third project with a main notebook and a thumbnail declares no category.
C28_Witness ==
    /\ pc = "done"
    /\ \E p, q \in Projects :
          /\ p # q
          /\ Rendered(p) /\ Rendered(q)
          /\ Range(DeclaredCategories(p)) \cap Range(DeclaredCategories(q)) # {}
          /\ OnSomeCategoryPage(p) /\ OnSomeCategoryPage(q)
    /\ \E project \in Projects :
          Rendered(project) /\ DeclaredCategories(project) = <<>>

-----------------------------------------------------------------------------
(* dodo.py, task test_small_data_setup: the test data of one project.      *)
(* The disk holds, at the paths of _prepare_paths: the catalog of the      *)
(* project (cat_real), the temporary catalog (cat_tmp), the data folder of *)
(* the project (real) and the test data folder of the project (test),      *)
(* whose catalog.yml, when it has one, is cat_test.                        *)

\* The number of test data tasks run in a row.
MaxTasks == 3

Absent == "absent"

ProjectCatalog == "catalog of the project"

TestCatalog == "catalog of the test data"

StaleCatalog == "catalog left by an earlier run"

NoDir == [exists |-> FALSE, names |-> {}]

Dir(names) == [exists |-> TRUE, names |-> names]

cat_filename == "catalog.yml"

DataFile == "earthquakes.csv"

\* _prepare_paths: the keys of the dict it returns are the fields of the disk.
\* cat_test is <test>/catalog.yml, an entry of the test data folder.
_prepare_paths ==
    [cat_real : {Absent, ProjectCatalog, TestCatalog},
     cat_tmp  : {Absent, ProjectCatalog, StaleCatalog},
     real     : {NoDir, Dir({}), Dir({DataFile})},
     test     : {NoDir} \cup {Dir(names) : names \in SUBSET {cat_filename, DataFile}}]

os_path_exists_cat_test(d) == d.test.exists /\ cat_filename \in d.test.names

Outcome(d, err) == [disk |-> d, error |-> err]

\* Lines 1399-1413 of copy_test_data: the catalog of the project is moved to
\* the temporary catalog and the test catalog is copied in its place.
copy_test_catalog(name, d) ==
    IF ~os_path_exists_cat_test(d) THEN Outcome(d, NoError)
    ELSE IF d.cat_tmp # Absent
    THEN Outcome(d, Exception("ValueError", {name}, "Fail: Temp file already exists",
                              "copy_test_data", name))
    ELSE IF d.cat_real = Absent
    THEN Outcome(d, Exception("FileNotFoundError", {name}, "os.rename",
                              "copy_test_data", name))
    ELSE Outcome([d EXCEPT !.cat_tmp = d.cat_real, !.cat_real = TestCatalog], NoError)

\* Lines 1415-1429 of copy_test_data: the test data folder is copied to the
\* data folder of the project, without its catalog.
copy_test_folder(name, d) ==
    IF d.test.names = {cat_filename} THEN Outcome(d, NoError)
    ELSE IF d.real.exists
    THEN Outcome(d, Exception("FileExistsError", {name}, "Found unexpected data folder",
                              "copy_test_data", name))
    ELSE Outcome([d EXCEPT !.real = Dir(d.test.names \ {cat_filename})], NoError)

copy_test_data(name, d) ==
    IF ~d.test.exists THEN Outcome(d, NoError)
    ELSE LET catalog == copy_test_catalog(name, d)
         IN  IF Raised(catalog.error) THEN catalog
             ELSE copy_test_folder(name, catalog.disk)

\* Lines 1438-1447 of remove_test_data: the temporary catalog, when there is
\* one, is moved back over the catalog of the project.
restore_catalog(d) ==
    IF d.cat_real = Absent \/ d.cat_tmp = Absent THEN d
    ELSE [d EXCEPT !.cat_real = d.cat_tmp, !.cat_tmp = Absent]

\* Lines 1449-1459 of remove_test_data: os.rmdir of an empty data folder,
\* shutil.rmtree of any other.
remove_data_folder(d) ==
    IF ~d.real.exists THEN d ELSE [d EXCEPT !.real = NoDir]

remove_test_data(name, d) ==
    IF ~d.test.exists THEN Outcome(d, NoError)
    ELSE Outcome(remove_data_folder(restore_catalog(d)), NoError)

Ran(task, err) == [task |-> task, error |-> err]

\* The project the tasks are run for.
TestedProject == ProjectNames[1]

InitTestData ==
    /\ disk \in _prepare_paths
    /\ diskAtCopy = disk
    /\ taskLog = <<>>
    /\ GalleryIdle
    /\ RemovingIdle
    /\ EndpointIdle
    /\ NbheaderIdle
    /\ AE5Idle

\* doit test_small_data_setup:<name>
CopyTestData ==
    /\ Len(taskLog) < MaxTasks
    /\ LET r == copy_test_data(TestedProject, disk)
       IN  /\ disk' = r.disk
           /\ diskAtCopy' = disk
           /\ taskLog' = Append(taskLog, Ran("copy_test_data", r.error))
    /\ UNCHANGED notTestData

\* doit clean test_small_data_setup:<name>
RemoveTestData ==
    /\ Len(taskLog) < MaxTasks
    /\ LET r == remove_test_data(TestedProject, disk)
       IN  /\ disk' = r.disk
           /\ taskLog' = Append(taskLog, Ran("remove_test_data", r.error))
           /\ UNCHANGED diskAtCopy
    /\ UNCHANGED notTestData

NextTestData == CopyTestData \/ RemoveTestData

SpecTestData == InitTestData /\ [][NextTestData]_vars

\* The last task run, and the one before it.
LastTask == taskLog[Len(taskLog)]

TaskBeforeLast == taskLog[Len(taskLog) - 1]

\* C22 as stated: when the project has test data, copy_test_data succeeded
\* and remove_test_data ran next, the catalog of the project has the content
\* it had before the copy, no temporary catalog remains, and a data folder
\* that was not there before the copy is not there.
C22_CopyThenRemoveRestores ==
    ( /\ Len(taskLog) >= 2
      /\ LastTask.task = "remove_test_data"
      /\ TaskBeforeLast = Ran("copy_test_data", NoError)
      /\ disk.test.exists )
    => /\ disk.cat_real = diskAtCopy.cat_real
       /\ disk.cat_tmp = Absent
       /\ ~diskAtCopy.real.exists => ~disk.real.exists

\* C29 as stated: when copy_test_data raised, the catalog of the project, the
\* temporary catalog and the data folder are as they were before the call.
C29_CopyAllOrNothing ==
    ( /\ Len(taskLog) >= 1
      /\ LastTask.task = "copy_test_data"
      /\ Raised(LastTask.error) )
    => /\ disk.cat_real = diskAtCopy.cat_real
       /\ disk.cat_tmp = diskAtCopy.cat_tmp
       /\ disk.real = diskAtCopy.real

-----------------------------------------------------------------------------
(* dodo.py, removing_files: the context manager prepare_project runs       *)
(* `anaconda-project prepare` in.                                          *)

\* The paths of the project directory the model follows.
ProjectPaths == {".projectignore", "anaconda-project-local.yml", "envs"}

\* The longest list of paths given to removing_files.
MaxPaths == 2

IsFile == "file"

IsDir == "directory"

path_exists(at, path) == at[path] # Absent

\* Lines 364-367: the listed paths that exist on entry.
collect_already_there(listed, at) ==
    SelectSeq(listed, LAMBDA path : path_exists(at, path))

\* path.unlink(): removes a file; on a directory it raises and the path stays.
path_unlink(at, path) ==
    IF at[path] = IsFile
    THEN [at |-> [at EXCEPT ![path] = Absent], error |-> NoError]
    ELSE [at |-> at,
          error |-> Exception("PermissionError", {path}, "unlink", "removing_files", "none")]

\* Lines 369-376: the loop after the yield, until an unlink raises.
RECURSIVE remove_new_paths(_, _, _, _)
remove_new_paths(listed, there, at, i) ==
    IF i > Len(listed) THEN [at |-> at, error |-> NoError]
    ELSE IF ~path_exists(at, listed[i]) \/ listed[i] \in Range(there)
    THEN remove_new_paths(listed, there, at, i + 1)
    ELSE LET r == path_unlink(at, listed[i])
         IN  IF Raised(r.error) THEN r
             ELSE remove_new_paths(listed, there, r.at, i + 1)

\* The lists of at most MaxPaths different paths.
PathLists ==
    {listed \in UNION {[1..n -> ProjectPaths] : n \in 1..MaxPaths} :
        \A i, j \in DOMAIN listed : listed[i] = listed[j] => i = j}

InitRemoving ==
    /\ paths \in PathLists
    /\ present \in [ProjectPaths -> {Absent, IsFile, IsDir}]
    /\ presentOnEntry = present
    /\ already_there = <<>>
    /\ ctx = "outside"
    /\ GalleryIdle
    /\ TestDataIdle
    /\ EndpointIdle
    /\ NbheaderIdle
    /\ AE5Idle

\* with removing_files(paths): the generator runs up to its yield.
EnterRemovingFiles ==
    /\ ctx = "outside"
    /\ already_there' = collect_already_there(paths, present)
    /\ presentOnEntry' = present
    /\ ctx' = "body"
    /\ UNCHANGED <<paths, present, notRemoving>>

\* The body of the with statement: `anaconda-project prepare` creates files
\* and folders in the project directory, and subprocess.run(check=True)
\* returns or raises CalledProcessError.
RunBody ==
    /\ ctx = "body"
    /\ \E after \in [ProjectPaths -> {Absent, IsFile, IsDir}] :
          /\ \A path \in ProjectPaths : path_exists(present, path) => after[path] = present[path]
          /\ present' = after
    /\ \E outcome \in {"returned", "raised"} : ctx' = outcome
    /\ UNCHANGED <<paths, presentOnEntry, already_there, notRemoving>>

\* The with statement is left. After a body that returned the generator is
\* resumed and runs its loop; the exception of a body that raised is thrown
\* into the generator at the yield, which is in no try statement, so the
\* generator ends there.
ExitRemovingFiles ==
    /\ ctx \in {"returned", "raised"}
    /\ present' = IF ctx = "raised" THEN present
                  ELSE remove_new_paths(paths, already_there, present, 1).at
    /\ ctx' = "exited"
    /\ UNCHANGED <<paths, presentOnEntry, already_there, notRemoving>>

NextRemoving == EnterRemovingFiles \/ RunBody \/ ExitRemovingFiles

SpecRemoving == InitRemoving /\ [][NextRemoving]_vars

\* C24 as stated: when the context is left, after a body that returned or
\* raised, every listed path that did not exist on entry does not exist and
\* every listed path that existed on entry exists.
C24_ListedPathsAsOnEntry ==
    ctx = "exited" =>
        \A path \in Range(paths) :
            path_exists(present, path) = path_exists(presentOnEntry, path)

-----------------------------------------------------------------------------
(* dodo.py, deployment_cmd_to_endpoint: the endpoint of a deployment.      *)
(* A string is the sequence of its characters.                             *)

\* The longest project name, before a suffix is added to it.
MaxNameLen == 2

Str_notebook == <<"n", "o", "t", "e", "b", "o", "o", "k">>

ENDPOINT_TEMPLATE_NOTEBOOK(servername) == servername \o <<"-">> \o Str_notebook

ENDPOINT_TEMPLATE_DASHBOARD(servername) == servername

EXAMPLES_HOLOVIZ_AE5_ENDPOINT ==
    <<"p", "y", "v", "i", "z", ".", "d", "e", "m", "o", ".",
      "a", "n", "a", "c", "o", "n", "d", "a", ".", "c", "o", "m">>

\* name.replace('_', '-')
projname_to_servername(name) ==
    [i \in DOMAIN name |-> IF name[i] = "_" THEN "-" ELSE name[i]]

Returned(value) == [value |-> value, error |-> NoError]

deployment_cmd_to_endpoint(cmd, name, full) ==
    LET servername == projname_to_servername(name)
        endpoint == IF cmd = "notebook" THEN ENDPOINT_TEMPLATE_NOTEBOOK(servername)
                    ELSE ENDPOINT_TEMPLATE_DASHBOARD(servername)
    IN  IF cmd \notin {"notebook", "dashboard"}
        THEN [value |-> <<>>,
              error |-> Exception("ValueError", {cmd}, "Unexpected command",
                                  "deployment_cmd_to_endpoint", "none")]
        ELSE IF ~full THEN Returned(endpoint)
        ELSE Returned(<<"h", "t", "t", "p", "s", ":", "/", "/">> \o endpoint
                          \o <<".">> \o EXAMPLES_HOLOVIZ_AE5_ENDPOINT)

\* The project names of the model: lower-case letters and underscores, as
\* projname_to_servername assumes; some end in _notebook.
NameChars == {"a", "_"}

NameSuffixes == {<<>>, <<"_">> \o Str_notebook}

EndpointNames ==
    {stem \o suffix : stem \in UNION {[1..n -> NameChars] : n \in 1..MaxNameLen},
                      suffix \in NameSuffixes}

EndpointCommands == {"notebook", "dashboard", "voila"}

InitEndpoint ==
    /\ \E full \in BOOLEAN :
          requests \in [1..2 -> [cmd : EndpointCommands, name : EndpointNames, full : {full}]]
    /\ endpoints = <<>>
    /\ GalleryIdle
    /\ TestDataIdle
    /\ RemovingIdle
    /\ NbheaderIdle
    /\ AE5Idle

\* The two calls are made.
ComputeEndpoints ==
    /\ endpoints = <<>>
    /\ endpoints' = [i \in 1..2 |->
                        deployment_cmd_to_endpoint(requests[i].cmd, requests[i].name,
                                                   requests[i].full)]
    /\ UNCHANGED <<requests, notEndpoint>>

NextEndpoint == ComputeEndpoints

SpecEndpoint == InitEndpoint /\ [][NextEndpoint]_vars

\* C30 as stated: two calls with commands notebook or dashboard that differ in
\* the command or in the project name return different endpoints.
C30_EndpointInjective ==
    ( /\ endpoints # <<>>
      /\ \A i \in 1..2 : requests[i].cmd \in {"notebook", "dashboard"}
      /\ <<requests[1].cmd, requests[1].name>> # <<requests[2].cmd, requests[2].name>> )
    => endpoints[1].value # endpoints[2].value

-----------------------------------------------------------------------------
(* _extensions/nbheader.py, insert_html_header.                            *)
(* A notebook is the sequence of its cells; the source of a cell is the    *)
(* sequence of its lines, what source.split('\n') returns.                 *)

\* The most cells a notebook has before a header is inserted.
MaxCells == 2

\* The most applications of insert_html_header to one notebook.
MaxApplications == 3

TITLE_TAG == "hv-nbheader-title"

Cell(cell_type, source, tags) == [cell_type |-> cell_type, source |-> source, tags |-> tags]

\* nbformat.v4.new_markdown_cell(source=...)
new_markdown_cell(source) == Cell("markdown", source, <<>>)

\* s.strip(), on the lines of the model.
str_strip(line) == IF line = " " THEN "" ELSE line

\* '\n'.join(lines): the text with these lines; the empty list gives the
\* empty text, whose only line is empty.
str_join_lines(lines) == IF lines = <<>> THEN <<"">> ELSE lines

\* ''.join([s.strip() for s in parts]) is not empty
has_text(parts) == \E i \in DOMAIN parts : str_strip(parts[i]) # ""

list_insert(list, index, item) ==
    IF index > Len(list) THEN Append(list, item)
    ELSE SubSeq(list, 1, index) \o <<item>> \o SubSeq(list, index + 1, Len(list))

\* Lines 85-93: the first cell keeps its first line and gets the title tag;
\* the other lines go to a new cell after it.
process_title(cells) ==
    LET first_cell == cells[1]
        parts == first_cell.source
        titled == [cells EXCEPT ![1] = Cell(first_cell.cell_type, <<parts[1]>>,
                                            Append(first_cell.tags, TITLE_TAG))]
    IN  IF has_text(parts)
        THEN list_insert(titled, 1, new_markdown_cell(str_join_lines(Tail(parts))))
        ELSE titled

\* Line 95: the header inside a raw html block. The three backquotes of the
\* fence are written as the word fence.
raw_html_block(header) == <<"fence{raw} html">> \o header \o <<"fence">>

\* Mutant: the header cell is inserted at every application.
insert_html_cell_always(cells, block, title_processed) ==
    list_insert(cells, 1, new_markdown_cell(block))

\* Lines 96-103: a new header cell at index 1 the first time, the source of
\* the cell at index 1 replaced the next times.
insert_html_cell(cells, block, title_processed) ==
    IF ~title_processed
    THEN list_insert(cells, 1, new_markdown_cell(block))
    ELSE [cells EXCEPT ![2].source = block]

\* insert_html_header: the notebook that is written back, or the exception
\* that is raised before anything is written.
insert_html_header(cells, header) ==
    IF cells = <<>>
    THEN [cells |-> cells,
          error |-> Exception("IndexError", {}, "list index out of range",
                              "insert_html_header", "none")]
    ELSE LET title_processed == TITLE_TAG \in Range(cells[1].tags)
             titled == IF title_processed THEN cells ELSE process_title(cells)
         IN  IF title_processed /\ Len(titled) < 2
             THEN [cells |-> cells,
                   error |-> Exception("IndexError", {}, "list index out of range",
                                       "insert_html_header", "none")]
             ELSE [cells |-> insert_html_cell(titled, raw_html_block(header), title_processed),
                   error |-> NoError]

\* The notebooks and the headers of the model.
CellSources ==
    { <<"">>, <<" ">>, <<"# Title">>, <<"# Title", "text">>,
      <<"# Title", "", "text">>, <<"", "# Title">> }

AuthoredCells ==
    {Cell(cell_type, source, tags) :
        cell_type \in {"markdown", "code"}, source \in CellSources,
        tags \in {<<>>, <<"hide-input">>}}

Headers == { <<"<div>authors</div>">>, <<"<div>authors</div>", "<hr />">> }

InitNbheader ==
    /\ notebook \in UNION {[1..n -> AuthoredCells] : n \in 0..MaxCells}
    /\ html_header \in Headers
    /\ nbOriginal = notebook
    /\ nbOnce = notebook
    /\ applied = <<>>
    /\ GalleryIdle
    /\ TestDataIdle
    /\ RemovingIdle
    /\ EndpointIdle
    /\ AE5Idle

\* add_nbheader calls insert_html_header on the notebook, at every build.
InsertHtmlHeader ==
    /\ Len(applied) < MaxApplications
    /\ LET r == insert_html_header(notebook, html_header)
       IN  /\ notebook' = r.cells
           /\ nbOnce' = IF applied = <<>> THEN r.cells ELSE nbOnce
           /\ applied' = Append(applied, r.error)
    /\ UNCHANGED <<html_header, nbOriginal, notNbheader>>

NextNbheader == InsertHtmlHeader

SpecNbheader == InitNbheader /\ [][NextNbheader]_vars

\* The cells of the notebook that hold the header block.
HeaderCells ==
    {i \in DOMAIN notebook : notebook[i].source = raw_html_block(html_header)}

\* C23: after one or more applications that returned, the notebook is the one
\* the first application wrote: its first cell holds the first line of the
\* original first cell and nothing else and has the title tag once, the cell
\* at index 1 is the only header cell, and the notebook has as many cells as
\* after the first application.
C23_HeaderInsertedOnce ==
    (applied # <<>> /\ \A i \in DOMAIN applied : ~Raised(applied[i]))
    => /\ notebook = nbOnce
       /\ notebook[1].source = <<nbOriginal[1].source[1]>>
       /\ Len(SelectSeq(notebook[1].tags, LAMBDA t : t = TITLE_TAG)) = 1
       /\ HeaderCells = {2}
       /\ Len(notebook) = Len(nbOnce)
       /\ Len(notebook) \in {Len(nbOriginal) + 1, Len(nbOriginal) + 2}

\* C23 witness: the header was applied three times to a notebook whose first
\* cell held a title and text, and the text is in a cell of its own after
\* the header.
C23_Witness ==
    /\ Len(applied) = 3
    /\ \A i \in DOMAIN applied : ~Raised(applied[i])
    /\ Len(nbOriginal[1].source) >= 2
    /\ Len(notebook) = Len(nbOriginal) + 2
    /\ notebook[3].source = Tail(nbOriginal[1].source)

-----------------------------------------------------------------------------
(* dodo.py, the tasks ae5_remove_project and ae5_sync_project.             *)
(* The platform holds projects and deployments; a session is the platform  *)
(* together with the log of the calls made on it. The calls that list,     *)
(* stop, delete and upload succeed; how a deployment_start ends is an      *)
(* input of the task.                                                      *)

\* The most tasks run in a row on the platform.
MaxAE5Runs == 1

\* The most deployments a project file declares.
MaxDeployments == 2

Deployment(project_name, endpoint, state) ==
    [project_name |-> project_name, endpoint |-> endpoint, state |-> state]

Call(call, ident, result) == [call |-> call, ident |-> ident, result |-> result]

Session(platform, log) == [remote |-> platform, calls |-> log]

\* session.project_list() and session.deployment_list(), as list_ae5_projects
\* and list_ae5_deployments read them.
list_ae5_projects(session) ==
    [projects |-> session.remote.projects,
     session |-> [session EXCEPT !.calls = Append(@, Call("project_list", "all", "ok"))]]

list_ae5_deployments(session, name) ==
    [deployments |-> SelectSeq(session.remote.deployments,
                               LAMBDA depl : depl.project_name = name),
     session |-> [session EXCEPT !.calls = Append(@, Call("deployment_list", "all", "ok"))]]

\* session.deployment_stop(ident=depl)
deployment_stop(session, depl) ==
    [remote |-> [session.remote EXCEPT
                    !.deployments = SelectSeq(@, LAMBDA d : d # depl)],
     calls |-> Append(session.calls, Call("deployment_stop", depl, "ok"))]

\* session.project_delete(ident=name)
project_delete(session, name) ==
    [remote |-> [session.remote EXCEPT !.projects = @ \ {name}],
     calls |-> Append(session.calls, Call("project_delete", name, "ok"))]

\* Lines 716-720 of remove_project: the loop that stops the deployments.
RECURSIVE stop_deployments(_, _)
stop_deployments(session, project_deployments) ==
    IF project_deployments = <<>> THEN session
    ELSE stop_deployments(deployment_stop(session, Head(project_deployments)),
                          Tail(project_deployments))

\* Mutant: the project is deleted with its deployments still running.
remove_project_without_stopping(session, name) ==
    LET listed == list_ae5_projects(session)
    IN  IF name \notin listed.projects THEN listed.session
        ELSE project_delete(list_ae5_deployments(listed.session, name).session, name)

remove_project(session, name) ==
    LET listed == list_ae5_projects(session)
        project_deployments == list_ae5_deployments(listed.session, name)
    IN  IF name \notin listed.projects THEN listed.session
        ELSE project_delete(
                 stop_deployments(project_deployments.session,
                                  project_deployments.deployments),
                 name)

\* session.project_upload(...): the project is on the platform afterwards.
project_upload(session, name, status) ==
    [remote |-> [session.remote EXCEPT !.projects = @ \cup {name}],
     calls |-> Append(session.calls, Call("project_upload", name, status))]

\* How a session.deployment_start(..., wait=True) can end: the response says
\* started, the response says another state, the call raises, and the call
\* raises with the deployment left on the platform.
StartOutcomes == {"started", "failed", "raised", "raised, deployment left"}

\* session.deployment_start(ident=name, endpoint=..., command=...)
deployment_start(session, name, endpoint, outcome) ==
    [remote |-> IF outcome = "raised" THEN session.remote
                ELSE [session.remote EXCEPT
                         !.deployments =
                             Append(@, Deployment(name, endpoint,
                                        IF outcome = "started" THEN "started" ELSE "failed"))],
     calls |-> Append(session.calls, Call("deployment_start", endpoint, outcome))]

SyncResult(session, err) == [session |-> session, error |-> err]

\* Mutant: the exception is passed on and the project stays on the platform.
deployment_failed_keep_project(session, name, err) ==
    SyncResult(session, err)

\* Lines 2407-2411 of _sync_project: the except clause around the start.
deployment_failed(session, name, err) ==
    SyncResult(remove_project(session, name), err)

\* Lines 2384-2415: the loop over the deployments to start.
RECURSIVE start_deployments(_, _, _, _, _)
start_deployments(session, name, deployments, outcomes, i) ==
    IF i > Len(deployments) THEN SyncResult(session, NoError)
    ELSE
    LET endpoint == deployment_cmd_to_endpoint(deployments[i].command, name, FALSE)
        started == deployment_start(session, name, endpoint.value, outcomes[i])
    IN  IF Raised(endpoint.error) THEN SyncResult(session, endpoint.error)
        ELSE IF outcomes[i] = "started"
        THEN start_deployments(started, name, deployments, outcomes, i + 1)
        ELSE deployment_failed(started, name,
                 Exception(IF outcomes[i] = "failed" THEN "RuntimeError" ELSE "AEException",
                           {deployments[i].command},
                           IF outcomes[i] = "failed" THEN "Deployment failed with response"
                                                      ELSE "deployment_start",
                           "_sync_project", "none"))

\* _sync_project, for a project file with these deployments.
sync_project(session, name, declared, archive_exists, session_ok, upload_status, outcomes) ==
    LET deployments == SelectSeq(declared, LAMBDA depl : depl.auto_deploy)
        deployed_projects == list_ae5_projects(session)
        cleared == IF name \in deployed_projects.projects
                   THEN remove_project(deployed_projects.session, name)
                   ELSE deployed_projects.session
        uploaded == project_upload(cleared, name, upload_status)
    IN  IF deployments = <<>> THEN SyncResult(session, NoError)
        ELSE IF ~archive_exists
        THEN SyncResult(session, Exception("FileNotFoundError", {}, "Expected archive not found",
                                           "_sync_project", "none"))
        ELSE IF ~session_ok THEN SyncResult(session, NoError)
        ELSE IF upload_status # "done"
        THEN SyncResult(uploaded, Exception("RuntimeError", {upload_status},
                                            "project_create_status is not done",
                                            "_sync_project", "none"))
        ELSE start_deployments(uploaded, name, deployments, outcomes, 1)

\* The project the tasks are run for, and another project of the platform.
AE5Name == <<"b", "o", "i", "d", "s">>

AE5Other == <<"o", "s", "m">>

Running(name, cmd) ==
    Deployment(name, deployment_cmd_to_endpoint(cmd, name, FALSE).value, "started")

DeploymentPool ==
    <<Running(AE5Other, "dashboard"), Running(AE5Name, "notebook"), Running(AE5Name, "dashboard")>>

RECURSIVE SubSeqAt(_, _, _)
SubSeqAt(seq, indices, i) ==
    IF i > Len(seq) THEN <<>>
    ELSE (IF i \in indices THEN <<seq[i]>> ELSE <<>>) \o SubSeqAt(seq, indices, i + 1)

\* The platforms a task can find: every deployment belongs to a project of
\* the platform.
Platforms ==
    {platform \in [projects : SUBSET {AE5Name, AE5Other},
                   deployments : {SubSeqAt(DeploymentPool, indices, 1) :
                                     indices \in SUBSET DOMAIN DeploymentPool}] :
        \A k \in DOMAIN platform.deployments :
            platform.deployments[k].project_name \in platform.projects}

\* The deployments of a project file; validate_project_file accepts the
\* commands dashboard and notebook only.
DeclaredDeployments ==
    UNION {[1..n -> [command : {"notebook", "dashboard"}, auto_deploy : BOOLEAN]] :
              n \in 0..MaxDeployments}

InitAE5 ==
    /\ remote \in Platforms
    /\ remoteBefore = remote
    /\ calls = <<>>
    /\ raised = NoError
    /\ ae5Runs = <<>>
    /\ GalleryIdle
    /\ TestDataIdle
    /\ RemovingIdle
    /\ EndpointIdle
    /\ NbheaderIdle

\* doit ae5_remove_project --name <name>
RemoveProject ==
    /\ Len(ae5Runs) < MaxAE5Runs
    /\ \E session_ok \in BOOLEAN :
          LET session == IF session_ok THEN remove_project(Session(remote, <<>>), AE5Name)
                         ELSE Session(remote, <<>>)
          IN  /\ remote' = session.remote
              /\ calls' = session.calls
    /\ remoteBefore' = remote
    /\ raised' = NoError
    /\ ae5Runs' = Append(ae5Runs, "remove_project")
    /\ UNCHANGED notAE5

\* doit ae5_sync_project --name <name>
SyncProject ==
    /\ Len(ae5Runs) < MaxAE5Runs
    /\ \E declared \in DeclaredDeployments :
       \E archive_exists \in BOOLEAN, session_ok \in BOOLEAN :
       \E upload_status \in {"done", "failed"} :
       \E outcomes \in [1..Len(SelectSeq(declared, LAMBDA depl : depl.auto_deploy))
                            -> StartOutcomes] :
          LET r == sync_project(Session(remote, <<>>), AE5Name, declared, archive_exists,
                                session_ok, upload_status, outcomes)
          IN  /\ remote' = r.session.remote
              /\ calls' = r.session.calls
              /\ raised' = r.error
    /\ remoteBefore' = remote
    /\ ae5Runs' = Append(ae5Runs, "sync_project")
    /\ UNCHANGED notAE5

NextAE5 == RemoveProject \/ SyncProject

SpecAE5 == InitAE5 /\ [][NextAE5]_vars

\* The last task run on the platform.
LastAE5Task == ae5Runs[Len(ae5Runs)]

DeploymentsOf(platform, name) ==
    SelectSeq(platform.deployments, LAMBDA depl : depl.project_name = name)

CallsOf(call) == {i \in DOMAIN calls : calls[i].call = call}

StopsOf(depl) == {i \in CallsOf("deployment_stop") : calls[i].ident = depl}

\* C21: when remove_project has run for a project that was on the platform,
\* every deployment the project had was stopped before the one call that
\* deletes the project, and the project and its deployments are gone; when
\* the project was not on the platform, nothing is stopped or deleted and the
\* platform is as it was.
C21_StopsBeforeDelete ==
    (ae5Runs # <<>> /\ LastAE5Task = "remove_project" /\ calls # <<>>)
    => IF AE5Name \in remoteBefore.projects
       THEN /\ Cardinality(CallsOf("project_delete")) = 1
            /\ \A j \in CallsOf("project_delete") :
                  /\ calls[j].ident = AE5Name
                  /\ \A depl \in Range(DeploymentsOf(remoteBefore, AE5Name)) :
                        \E i \in StopsOf(depl) : i < j
            /\ AE5Name \notin remote.projects
            /\ DeploymentsOf(remote, AE5Name) = <<>>
            /\ DeploymentsOf(remote, AE5Other) = DeploymentsOf(remoteBefore, AE5Other)
       ELSE /\ CallsOf("deployment_stop") = {}
            /\ CallsOf("project_delete") = {}
            /\ remote = remoteBefore

\* C21 witness: remove_project has run for a project with two deployments,
\* next to another project with a deployment: two stops, then the delete.
C21_Witness ==
    /\ ae5Runs # <<>> /\ LastAE5Task = "remove_project"
    /\ Len(DeploymentsOf(remoteBefore, AE5Name)) = 2
    /\ Len(DeploymentsOf(remote, AE5Other)) = 1
    /\ Cardinality(CallsOf("deployment_stop")) = 2
    /\ Cardinality(CallsOf("project_delete")) = 1

\* The starts of the last task that did not end with the state started.
FailedStarts ==
    {i \in CallsOf("deployment_start") : calls[i].result # "started"}

\* C25: when _sync_project has run and a start of a deployment raised or did
\* not reach the state started, the project is not on the platform, none of
\* its deployments is, and the task raised the error of that start.
C25_FailedStartRemovesProject ==
    (ae5Runs # <<>> /\ LastAE5Task = "sync_project" /\ FailedStarts # {})
    => /\ AE5Name \notin remote.projects
       /\ DeploymentsOf(remote, AE5Name) = <<>>
       /\ DeploymentsOf(remote, AE5Other) = DeploymentsOf(remoteBefore, AE5Other)
       /\ Raised(raised)
       /\ \A i \in FailedStarts :
             raised.type = IF calls[i].result = "failed" THEN "RuntimeError" ELSE "AEException"

\* C25 witness: _sync_project replaced a project of the platform, the first
\* start reached started and the second left a failed deployment; both
\* deployments were stopped and the project deleted.
C25_Witness ==
    /\ ae5Runs # <<>> /\ LastAE5Task = "sync_project"
    /\ AE5Name \in remoteBefore.projects
    /\ Cardinality(CallsOf("project_upload")) = 1
    /\ \E i, j \in CallsOf("deployment_start") :
          i < j /\ calls[i].result = "started" /\ calls[j].result = "failed"
    /\ \E j \in CallsOf("project_delete") :
          Cardinality({i \in CallsOf("deployment_stop") : i < j /\ calls[i].ident.state = "started"}) >= 1
          /\ Cardinality({i \in CallsOf("deployment_stop") : i < j /\ calls[i].ident.state = "failed"}) = 1
    /\ AE5Name \notin remote.projects

====
